---- MODULE Spec2Model ----
(***************************************************************************)
(* Model of week3/main.py: power_method(A, x0, eps, max_iter).             *)
(*                                                                         *)
(* Arrays are records [shape, kind, data]: shape is the numpy shape, data  *)
(* the flat row-major contents.  Numbers are exact: a vector of kind "raw" *)
(* has the integer components data; a vector of kind "unit" is             *)
(* data / ||data|| (data is kept primitive, i.e. divided by the gcd of its *)
(* components); a vector of kind "nan" has every component NaN.  The       *)
(* iterate y / ||y|| of line 46 has the direction of A @ data whatever the *)
(* positive scale of x is, so the direction is all that has to be stored.  *)
(* Comparisons of the irrational error norm against eps are decided by     *)
(* squaring.  IEEE rounding is not modelled; the inputs are chosen so that *)
(* no error value lies exactly on the threshold eps.  The sign of a zero   *)
(* component (+0.0 / -0.0), which decides the sign of x / 0, depends on    *)
(* the accumulation order of the matrix product and is a nondeterministic  *)
(* choice.  Only square two-dimensional A and A that is not                *)
(* two-dimensional are drawn as inputs.                                    *)
(***************************************************************************)
EXTENDS Integers, Sequences, FiniteSets, TLC

VARIABLES pc, A, x0, x_buf, x_i, eps, max_iter, i, broken, eigenvalue, exc,
          A_in, x0_in, iters, ops, errors

vars == <<pc, A, x0, x_buf, x_i, eps, max_iter, i, broken, eigenvalue, exc,
          A_in, x0_in, iters, ops, errors>>

\* ------------------------------------------------------------------ bounds
MaxIter == 3

\* ------------------------------------------------------------ input domains
AVals == {-2, 0, 1, 2}
XVals == {0, 1}
AShapes == {<<2>>, <<1, 1, 1>>, <<1, 1>>, <<2, 2>>}
X0Shapes == {<<1>>, <<2>>, <<3>>, <<1, 1>>, <<2, 1>>, <<1, 2>>, <<2, 2>>}
EpsSet == {[num |-> 0, den |-> 1], [num |-> 1, den |-> 2], [num |-> 3, den |-> 1]}

\* ------------------------------------------------------------ integer helpers
Abs(n) == IF n < 0 THEN -n ELSE n

Sgn(n) == IF n < 0 THEN -1 ELSE IF n = 0 THEN 0 ELSE 1

Min(a, b) == IF a < b THEN a ELSE b

RECURSIVE GCD(_, _)
GCD(a, b) == IF b = 0 THEN Abs(a) ELSE GCD(b, a % Abs(b))

RECURSIVE SumTo(_, _)
SumTo(f, n) == IF n = 0 THEN 0 ELSE f[n] + SumTo(f, n - 1)

RECURSIVE GcdTo(_, _)
GcdTo(f, n) == IF n = 0 THEN 0 ELSE GCD(f[n], GcdTo(f, n - 1))

RECURSIVE Prod(_)
Prod(shape) == IF shape = <<>> THEN 1 ELSE Head(shape) * Prod(Tail(shape))

Dot(u, v) == SumTo([j \in 1..Len(u) |-> u[j] * v[j]], Len(u))

NormSq(v) == Dot(v, v)

IsZeroVec(v) == \A j \in 1..Len(v) : v[j] = 0

Primitive(v) ==
    LET g == GcdTo(v, Len(v))
    IN  IF g = 0 THEN v ELSE [j \in 1..Len(v) |-> v[j] \div g]

\* ------------------------------------------------------------ numpy pieces
NoneArr == [shape |-> <<>>, kind |-> "none", data |-> <<>>]

ArraysOf(shapes, vals) ==
    UNION {{[shape |-> s, kind |-> "raw", data |-> d] : d \in [1..Prod(s) -> vals]} :
              s \in shapes}

\* np.squeeze: drop every axis of extent 1
Squeeze(shape) == SelectSeq(shape, LAMBDA d : d # 1)

\* np.ones(shape=(n))
Ones(n) == [shape |-> <<n>>, kind |-> "raw", data |-> [j \in 1..n |-> 1]]

\* variant of the check of line 34 that lets arrays of more than two axes pass
AShapeBadLow(a) == Len(a.shape) < 2

\* line 34: len(A.shape) != 2
AShapeBad(a) == Len(a.shape) # 2

\* line 40: len(x0.shape) != 1
X0ShapeBad(shape) == Len(shape) # 1

\* variant of the operand check that accepts a vector longer than A is wide
MatmulLoose(ashape, xshape) ==
    /\ Len(ashape) = 2
    /\ Len(xshape) = 1
    /\ ashape[2] <= xshape[1]

\* operand check of A @ x: a 2-D times 1-D product needs A.shape[1] = len(x)
MatmulOk(ashape, xshape) ==
    /\ Len(ashape) = 2
    /\ Len(xshape) = 1
    /\ ashape[2] = xshape[1]

\* A @ x as a direction: kind "nan" when x is NaN, else the integer vector
MatVec(a, x) ==
    LET r == a.shape[1]
        c == a.shape[2]
    IN  IF x.kind = "nan"
        THEN [nan |-> TRUE, dir |-> [k \in 1..r |-> 0]]
        ELSE [nan |-> FALSE,
              dir |-> [k \in 1..r |->
                        SumTo([j \in 1..c |-> a.data[(k - 1) * c + j] * x.data[j]], c)]]

\* variant of line 46 that leaves a zero y as it is instead of dividing it
NormalizeGuarded(y) ==
    IF y.nan
    THEN [shape |-> <<Len(y.dir)>>, kind |-> "nan", data |-> [k \in 1..Len(y.dir) |-> 0]]
    ELSE IF IsZeroVec(y.dir)
    THEN [shape |-> <<Len(y.dir)>>, kind |-> "raw", data |-> y.dir]
    ELSE [shape |-> <<Len(y.dir)>>, kind |-> "unit", data |-> Primitive(y.dir)]

\* line 46: y / np.linalg.norm(y); 0 / 0 and NaN / NaN are NaN
Normalize(y) ==
    IF y.nan \/ IsZeroVec(y.dir)
    THEN [shape |-> <<Len(y.dir)>>, kind |-> "nan", data |-> [k \in 1..Len(y.dir) |-> 0]]
    ELSE [shape |-> <<Len(y.dir)>>, kind |-> "unit", data |-> Primitive(y.dir)]

\* line 47: np.linalg.norm(x_ip1 - x_i), kept as error^2 = 1 + S - 2 c / sqrt(D)
ErrorOf(xn, x) ==
    IF xn.kind = "nan" \/ x.kind = "nan"
    THEN [nan |-> TRUE, S |-> 0, c |-> 0, D |-> 1]
    ELSE [nan |-> FALSE,
          S |-> IF x.kind = "unit" THEN 1 ELSE NormSq(x.data),
          c |-> Dot(xn.data, x.data),
          D |-> IF x.kind = "unit" THEN NormSq(xn.data) * NormSq(x.data)
                                    ELSE NormSq(xn.data)]

\* line 49: error < eps; every comparison with NaN is False
ErrLtEps(e, ep) ==
    LET p == ep.num
        q == ep.den
        L == q * q * (1 + e.S) - p * p
        lhs == L * L * e.D
        rhs == 4 * q * q * q * q * e.c * e.c
    IN  /\ ~e.nan
        /\ p > 0
        /\ \/ L >= 0 /\ e.c > 0 /\ lhs < rhs
           \/ L < 0 /\ (e.c >= 0 \/ lhs > rhs)

\* one component of A @ x / x; z is the sign of the zero when x[k] is a zero
Ratio(num, den, z) ==
    IF den # 0
    THEN LET g == GCD(num, den)
         IN  [kind |-> "fin", num |-> (Sgn(den) * num) \div g, den |-> Abs(den) \div g]
    ELSE IF num = 0 THEN [kind |-> "nan", num |-> 0, den |-> 1]
    ELSE IF Sgn(num) * z > 0 THEN [kind |-> "pinf", num |-> 0, den |-> 1]
    ELSE [kind |-> "ninf", num |-> 0, den |-> 1]

RatLt(a, b) == a.num * b.den < b.num * a.den

\* np.max over a set of components: NaN propagates, then +inf, then the reals
NpMax(rs) ==
    IF \E r \in rs : r.kind = "nan" THEN [kind |-> "nan", num |-> 0, den |-> 1]
    ELSE IF \E r \in rs : r.kind = "pinf" THEN [kind |-> "pinf", num |-> 0, den |-> 1]
    ELSE LET fins == {r \in rs : r.kind = "fin"}
         IN  IF fins = {} THEN [kind |-> "ninf", num |-> 0, den |-> 1]
             ELSE CHOOSE r \in fins : \A o \in fins : ~RatLt(r, o)

\* line 52: float(np.max(A @ x_i / x_i)); zs[k] is the sign of a zero x_i[k]
Eigenvalue(a, x, zs) ==
    IF x.kind = "nan" THEN [kind |-> "nan", num |-> 0, den |-> 1]
    ELSE LET y == MatVec(a, x).dir
         IN  NpMax({Ratio(y[k], x.data[k], zs[k]) : k \in 1..Len(y)})

\* ------------------------------------------------------------ references
\* the array the name x_i is bound to: a view of the caller's x0 or a local
Deref(ref, arg, buf) ==
    IF ref.base = "arg"
    THEN [shape |-> ref.shape, kind |-> arg.kind, data |-> arg.data]
    ELSE buf

\* variant of line 48 that writes into the bound array (x_i[:] = x_ip1)
StoreInPlace(ref, arg, buf, val) ==
    IF ref.base = "arg"
    THEN [x0 |-> [arg EXCEPT !.kind = val.kind, !.data = val.data], x_buf |-> buf,
          x_i |-> ref]
    ELSE [x0 |-> arg, x_buf |-> val, x_i |-> ref]

\* line 48: x_i = x_ip1 rebinds the name to the fresh array of line 46
StoreIterate(ref, arg, buf, val) ==
    [x0 |-> arg, x_buf |-> val, x_i |-> [base |-> "loc", shape |-> val.shape]]

\* variant of the loop without the break of lines 49-50
LoopNoBreak(k, max, brk) == k < max

\* lines 44, 49-50: the for loop goes on while the range lasts and no break
LoopContinues(k, max, brk) == k < max /\ ~brk

ErrA == "ValueError: A must be a 2D matrix."
ErrX0 == "ValueError: The shape of x0 must be (n, 1) or (n,)."
ErrMatmul == "ValueError: matmul: mismatch in core dimension"

NoEig == [kind |-> "none", num |-> 0, den |-> 1]
NoRef == [base |-> "none", shape |-> <<>>]

\* lines 34-43: the outcome of validation
Validated(a, arg) ==
    IF AShapeBad(a)
    THEN [exc |-> ErrA, x_i |-> NoRef, x_buf |-> NoneArr]
    ELSE IF arg.kind = "none"
    THEN [exc |-> "none", x_i |-> [base |-> "loc", shape |-> <<a.shape[2]>>],
          x_buf |-> Ones(a.shape[2])]
    ELSE IF X0ShapeBad(Squeeze(arg.shape))
    THEN [exc |-> ErrX0, x_i |-> NoRef, x_buf |-> NoneArr]
    ELSE [exc |-> "none", x_i |-> [base |-> "arg", shape |-> Squeeze(arg.shape)],
          x_buf |-> NoneArr]

\* ------------------------------------------------------------ state machine
Init ==
    /\ pc = "call"
    /\ A \in ArraysOf(AShapes, AVals)
    /\ x0 \in {NoneArr} \cup ArraysOf(X0Shapes, XVals)
    /\ eps \in EpsSet
    /\ max_iter \in 0..MaxIter
    /\ x_buf = NoneArr
    /\ x_i = NoRef
    /\ i = 0
    /\ broken = FALSE
    /\ eigenvalue = NoEig
    /\ exc = "none"
    /\ A_in = A
    /\ x0_in = x0
    /\ iters = 0
    /\ ops = 0
    /\ errors = <<>>

\* lines 34-43
Validate ==
    /\ pc = "call"
    /\ LET v == Validated(A, x0)
       IN  /\ exc' = v.exc
           /\ x_i' = v.x_i
           /\ x_buf' = v.x_buf
           /\ pc' = IF v.exc = "none" THEN "loop" ELSE "raised"
    /\ UNCHANGED <<A, x0, eps, max_iter, i, broken, eigenvalue, A_in, x0_in,
                   iters, ops, errors>>

\* lines 44-50: one pass through the loop body
LoopBody ==
    /\ pc = "loop"
    /\ LoopContinues(i, max_iter, broken)
    /\ LET x == Deref(x_i, x0, x_buf)
       IN  IF ~MatmulOk(A.shape, x.shape)
           THEN /\ pc' = "raised"
                /\ exc' = ErrMatmul
                /\ UNCHANGED <<x0, x_buf, x_i, i, broken, iters, ops, errors>>
           ELSE LET y == MatVec(A, x)
                    x_ip1 == Normalize(y)
                    error == ErrorOf(x_ip1, x)
                    st == StoreIterate(x_i, x0, x_buf, x_ip1)
                IN  /\ x0' = st.x0
                    /\ x_buf' = st.x_buf
                    /\ x_i' = st.x_i
                    /\ i' = i + 1
                    /\ broken' = ErrLtEps(error, eps)
                    /\ iters' = iters + 1
                    /\ ops' = ops + 1
                    /\ errors' = Append(errors, error)
                    /\ UNCHANGED <<pc, exc>>
    /\ UNCHANGED <<A, eps, max_iter, eigenvalue, A_in, x0_in>>

\* lines 52-53
Finish ==
    /\ pc = "loop"
    /\ ~LoopContinues(i, max_iter, broken)
    /\ LET x == Deref(x_i, x0, x_buf)
       IN  IF ~MatmulOk(A.shape, x.shape)
           THEN /\ pc' = "raised"
                /\ exc' = ErrMatmul
                /\ UNCHANGED <<eigenvalue, ops>>
           ELSE \E zs \in [1..Len(x.data) -> {-1, 1}] :
                    /\ eigenvalue' = Eigenvalue(A, x, zs)
                    /\ ops' = ops + 1
                    /\ pc' = "returned"
                    /\ UNCHANGED exc
    /\ UNCHANGED <<A, x0, x_buf, x_i, eps, max_iter, i, broken, A_in, x0_in,
                   iters, errors>>

Next == Validate \/ LoopBody \/ Finish

Spec == Init /\ [][Next]_vars

\* the vector power_method returns (second element of the pair)
Returned == Deref(x_i, x0, x_buf)

\* ------------------------------------------------------------ the claims
\* A is a square matrix of two axes
Square2D(a) == Len(a.shape) = 2 /\ a.shape[1] = a.shape[2]

\* the call raises no shape error: A is n x n and x0 is absent or squeezes to length n
ValidCall ==
    /\ Square2D(A_in)
    /\ x0_in.kind = "none" \/ Squeeze(x0_in.shape) = <<A_in.shape[2]>>

\* the working vector line 43 starts from
StartVec ==
    IF x0_in.kind = "none" THEN Ones(A_in.shape[2])
    ELSE [shape |-> Squeeze(x0_in.shape), kind |-> "raw", data |-> x0_in.data]

\* the j-th iterate of x -> A x / ||A x||, with no early exit
RECURSIVE IterAt(_)
IterAt(j) == IF j = 0 THEN StartVec ELSE Normalize(MatVec(A_in, IterAt(j - 1)))

\* the error of iteration j is strictly below eps
ConvAt(j) == ErrLtEps(ErrorOf(IterAt(j), IterAt(j - 1)), eps)

\* index of the first iteration with error < eps, max_iter + 1 when there is none
FirstConv ==
    IF \E j \in 1..max_iter : ConvAt(j)
    THEN CHOOSE j \in 1..max_iter : ConvAt(j) /\ \A m \in 1..(j - 1) : ~ConvAt(m)
    ELSE max_iter + 1

ExpectedIters == Min(max_iter, FirstConv)

\* C1: a call that passes validation runs the loop body exactly
\* min(max_iter, k) times, k the first iteration with error < eps, and then
\* returns a pair; it raises nothing, also when max_iter is exhausted
C1_LoopCount ==
    ValidCall =>
        /\ pc # "raised"
        /\ iters <= ExpectedIters
        /\ pc = "loop" => (LoopContinues(i, max_iter, broken) <=> iters < ExpectedIters)
        /\ pc = "returned" =>
               /\ iters = ExpectedIters
               /\ eigenvalue # NoEig
               /\ Returned.shape = <<A_in.shape[2]>>

C1_Witness ==
    /\ ValidCall
    /\ pc = "returned"
    /\ iters = 2
    /\ max_iter = MaxIter

\* the Euclidean norm of x is 1
HasUnitNorm(x) == x.kind = "unit" \/ (x.kind = "raw" /\ NormSq(x.data) = 1)

\* C2: the vector returned by power_method has Euclidean norm 1 for every
\* accepted A, every x0, every eps and every max_iter, max_iter = 0 included
C2_UnitNorm == pc = "returned" => HasUnitNorm(Returned)

\* C3: when A has not exactly two axes or the squeezed x0 has not exactly one,
\* a shape error is raised before any product, normalization or error is computed
C3_ShapeErrorFirst ==
    (Len(A_in.shape) # 2 \/ (x0_in.kind # "none" /\ Len(Squeeze(x0_in.shape)) # 1)) =>
        /\ pc \in {"call", "raised"}
        /\ ops = 0
        /\ iters = 0
        /\ errors = <<>>
        /\ pc = "raised" => exc \in {ErrA, ErrX0}

C3_Witness ==
    /\ pc = "raised"
    /\ Len(A_in.shape) = 3
    /\ exc = ErrA

\* an n x n A with a one-dimensional x0 of another length
MismatchedX0 ==
    /\ Square2D(A_in)
    /\ x0_in.kind # "none"
    /\ Len(x0_in.shape) = 1
    /\ x0_in.shape[1] # A_in.shape[2]

\* C4: an n x n A with a one-dimensional x0 of length other than n ends in a
\* ValueError for every max_iter and eps; no iteration completes and no pair
\* is returned
C4_MismatchRaises ==
    MismatchedX0 =>
        /\ pc # "returned"
        /\ eigenvalue = NoEig
        /\ iters = 0
        /\ pc = "raised" => exc \in {ErrX0, ErrMatmul}

C4_Witness ==
    /\ MismatchedX0
    /\ pc = "raised"
    /\ exc = ErrMatmul
    /\ x0_in.shape = <<3>>
    /\ A_in.shape = <<2, 2>>

\* C5: for every n >= 1 an x0 of shape (n,) or (n, 1) passes validation and
\* is collapsed to one axis of length n
C5_ColumnAccepted ==
    (/\ Square2D(A_in)
     /\ x0_in.kind # "none"
     /\ x0_in.shape \in {<<A_in.shape[2]>>, <<A_in.shape[2], 1>>}
     /\ pc # "call") =>
        /\ exc # ErrX0
        /\ pc = "loop" => x_i.shape = <<A_in.shape[2]>>

\* the maximum of (A x)[k] / x[k] over the components with x[k] # 0
MaxOverNonzero(a, x) ==
    IF x.kind = "nan" THEN [kind |-> "nan", num |-> 0, den |-> 1]
    ELSE LET y == MatVec(a, x).dir
         IN  NpMax({Ratio(y[k], x.data[k], 1) : k \in {m \in 1..Len(x.data) : x.data[m] # 0}})

\* C6: the returned eigenvalue is the maximum of (A x)[k] / x[k] over the
\* components with x[k] # 0 only; zero components do not affect it
C6_NonzeroOnly ==
    (pc = "returned" /\ (Returned.kind = "nan" \/ ~IsZeroVec(Returned.data))) =>
        eigenvalue = MaxOverNonzero(A_in, Returned)

\* A is diagonal with pairwise distinct diagonal entries, one of them of
\* strictly largest magnitude
Diag(a, k) == a.data[(k - 1) * a.shape[2] + k]

IsDiagonal(a) ==
    /\ Square2D(a)
    /\ \A r, c \in 1..a.shape[2] : r # c => a.data[(r - 1) * a.shape[2] + c] = 0

DistinctDiagonal(a) ==
    /\ IsDiagonal(a)
    /\ \A r, c \in 1..a.shape[2] : r # c => Diag(a, r) # Diag(a, c)
    /\ \E r \in 1..a.shape[2] : \A c \in 1..a.shape[2] :
           r # c => Abs(Diag(a, r)) > Abs(Diag(a, c))

Dominant(a) ==
    CHOOSE r \in 1..a.shape[2] : \A c \in 1..a.shape[2] :
        r # c => Abs(Diag(a, r)) > Abs(Diag(a, c))

\* C7: for a diagonal matrix with distinct entries of either sign and the
\* default x0, the returned eigenvalue is the diagonal entry of largest
\* magnitude (the part of the claim that is exact whatever the tolerance)
C7_DiagonalDominant ==
    (DistinctDiagonal(A_in) /\ x0_in.kind = "none" /\ pc = "returned") =>
        eigenvalue = [kind |-> "fin", num |-> Diag(A_in, Dominant(A_in)), den |-> 1]

IsIdentity(a) ==
    /\ IsDiagonal(a)
    /\ \A r \in 1..a.shape[2] : Diag(a, r) = 1

\* C8: for the identity matrix, a non-zero x0 (zero components allowed) and
\* max_iter >= 1, the returned eigenvalue is 1 and the returned vector is x0
\* normalized
C8_Identity ==
    (/\ IsIdentity(A_in)
     /\ ValidCall
     /\ x0_in.kind # "none"
     /\ ~IsZeroVec(x0_in.data)
     /\ max_iter >= 1
     /\ pc = "returned") =>
        /\ eigenvalue = [kind |-> "fin", num |-> 1, den |-> 1]
        /\ Returned.kind = "unit"
        /\ Returned.data = Primitive(x0_in.data)

\* C9: on every path the contents of the caller's A and x0 are what they were
\* at the call
C9_InputsUnchanged == A = A_in /\ x0 = x0_in

C9_Witness ==
    /\ pc = "returned"
    /\ x0_in.kind # "none"
    /\ iters >= 2
    /\ x_i.base = "loc"
    /\ Returned.kind = "unit"

\* the product A x of iteration j is the zero vector
ZeroProductAt(j) ==
    /\ IterAt(j - 1).kind # "nan"
    /\ IsZeroVec(MatVec(A_in, IterAt(j - 1)).dir)

\* C10: once the product A x of an executed iteration j is the zero vector,
\* nothing is raised, the iterate and every error from j on are NaN, the loop
\* never breaks and runs all max_iter iterations, and the eigenvalue is NaN
C10_ZeroProductNaN ==
    \A j \in 1..iters :
        ZeroProductAt(j) =>
            /\ pc # "raised"
            /\ \A m \in j..iters : errors[m].nan
            /\ ~broken
            /\ Returned.kind = "nan"
            /\ pc = "returned" => iters = max_iter /\ eigenvalue.kind = "nan"

C10_Witness ==
    /\ pc = "returned"
    /\ max_iter = MaxIter
    /\ ZeroProductAt(2)
    /\ eps.num = 1
    /\ iters = MaxIter

====
